---- MODULE Spec2Model ----
(***************************************************************************)
(* Model of the Pokemon REST API of src/connect.js: the express-validator  *)
(* chains, handleValidation, the six resource handlers over the pokemon    *)
(* collection, and the middleware chain in front of them.                  *)
(*                                                                         *)
(* Strings are sequences of one-character strings, so that trim, isInt,    *)
(* parseInt, isURL and RegExp are computed and not assumed.  A JSON scalar *)
(* that may arrive as a number or as a string (body id, base stats) is a   *)
(* tagged value Num(n) / Str(s); a stored document holds plain integers.   *)
(* An object is a function whose domain is the set of keys that are        *)
(* present.                                                                *)
(***************************************************************************)
EXTENDS Integers, Sequences, FiniteSets, TLC

VARIABLES db,        \* the pokemon collection, in the store's natural (insertion) order
          nextOid,   \* the next store-assigned internal _id
          res,       \* the request last answered, with its response
          born,      \* history: _id -> external id the document was created with
          gone,      \* history: ids deleted (200) and not created again since
          inflight,  \* a List request suspended between find() and countDocuments()
          hits,      \* the limiter's counter of the caller in the current window
          served,    \* history: requests of the window not answered by the limiter's 429
          asked      \* history: requests of the caller in the current window

vars == <<db, nextOid, res, born, gone, inflight, hits, served, asked>>

-----------------------------------------------------------------------------
(* Bounds of the model *)
MaxDocs == 2
MaxCreates == 3
MaxOver == 2

(* Program constants *)
NameMax == 50
TypeEntryMax == 20
TypeMax == 2
StatMin == 1
StatMax == 255
LimitMax == 100
DefaultPage == 1
DefaultLimit == 20
RateMax == 300

-----------------------------------------------------------------------------
(* JSON values *)
Num(n) == [t |-> "number", v |-> n]
Str(s) == [t |-> "string", v |-> s]
Has(o, k) == k \in DOMAIN o
Range(s) == {s[i] : i \in DOMAIN s}

Stats == <<"HP", "Attack", "Defense", "SpecialAttack", "SpecialDefense", "Speed">>

-----------------------------------------------------------------------------
(* String functions of validator.js and of JavaScript *)

RECURSIVE ltrim(_)
ltrim(s) == IF s # <<>> /\ Head(s) = " " THEN ltrim(Tail(s)) ELSE s

RECURSIVE rtrim(_)
rtrim(s) == IF s # <<>> /\ s[Len(s)] = " " THEN rtrim(SubSeq(s, 1, Len(s) - 1)) ELSE s

trim(s) == rtrim(ltrim(s))

\* isLength(str, {min, max}); max < 0 stands for "no max option"
isLength(s, min, max) == Len(s) >= min /\ (max < 0 \/ Len(s) <= max)

DigitChars == {"0", "1", "2", "3", "4", "5", "6", "7", "8", "9"}
DigitVal(c) == CASE c = "0" -> 0 [] c = "1" -> 1 [] c = "2" -> 2 [] c = "3" -> 3
                 [] c = "4" -> 4 [] c = "5" -> 5 [] c = "6" -> 6 [] c = "7" -> 7
                 [] c = "8" -> 8 [] c = "9" -> 9

RECURSIVE DigitsValue(_)
DigitsValue(s) == IF s = <<>> THEN 0
                  ELSE 10 * DigitsValue(SubSeq(s, 1, Len(s) - 1)) + DigitVal(s[Len(s)])

Unsigned(s) == IF s # <<>> /\ Head(s) \in {"+", "-"} THEN Tail(s) ELSE s

\* validator.js isInt's default pattern /^[-+]?[0-9]+$/
intPattern(s) == Unsigned(s) # <<>> /\ \A i \in DOMAIN Unsigned(s) : Unsigned(s)[i] \in DigitChars

\* Number(s) for a string that matches intPattern
ToNumber(s) == IF Head(s) = "-" THEN 0 - DigitsValue(Unsigned(s)) ELSE DigitsValue(Unsigned(s))

\* isInt(str, {min, max}); max < 0 stands for "no max option"
isInt(s, min, max) == /\ intPattern(s)
                      /\ ToNumber(s) >= min
                      /\ (max < 0 \/ ToNumber(s) <= max)

\* express-validator applies isInt to toString(value): the decimal form of a JSON
\* integer always matches the pattern, '' (an absent value) never does.
isIntJ(v, min, max) == IF v.t = "number" THEN v.v >= min /\ (max < 0 \/ v.v <= max)
                       ELSE isInt(v.v, min, max)

\* mongoose's cast of a Number path
CastNumber(v) == IF v.t = "number" THEN v.v ELSE ToNumber(v.v)

\* parseInt(s): <<n>>, or <<>> for NaN.  Leading blanks are skipped and the longest
\* digit prefix after an optional sign is read.
RECURSIVE DigitPrefix(_)
DigitPrefix(s) == IF s # <<>> /\ Head(s) \in DigitChars THEN <<Head(s)>> \o DigitPrefix(Tail(s))
                  ELSE <<>>

parseInt(s) == LET t == ltrim(s)
                   d == DigitPrefix(Unsigned(t))
               IN  IF d = <<>> THEN <<>>
                   ELSE IF Head(t) = "-" THEN <<0 - DigitsValue(d)>> ELSE <<DigitsValue(d)>>

\* parseInt(req.query[k]) || dflt
parseIntOr(q, k, dflt) == IF ~Has(q, k) THEN dflt
                          ELSE LET n == parseInt(q[k])
                               IN  IF n = <<>> \/ n = <<0>> THEN dflt ELSE n[1]

Lower(c) == CASE c = "A" -> "a" [] c = "B" -> "b" [] c = "C" -> "c" [] OTHER -> c

AlphaChars == {"a", "b", "c", "o", "h", "t", "p", "x", "A", "B", "C"}

\* The first position of sub in s, 0 when there is none
IndexOf(sub, s) ==
    LET at == {i \in 1..(Len(s) - Len(sub) + 1) : SubSeq(s, i, i + Len(sub) - 1) = sub}
    IN  IF at = {} THEN 0 ELSE CHOOSE i \in at : \A j \in at : i <= j

LastIndexOf(c, s) ==
    LET at == {i \in DOMAIN s : s[i] = c}
    IN  IF at = {} THEN 0 ELSE CHOOSE i \in at : \A j \in at : i >= j

\* validator.js isURL with its default options, for URLs without userinfo, port,
\* query or fragment: no blank, an optional http/https/ftp protocol, and a host
\* that is a dotted name whose last label has at least two letters.
isURL(s) ==
    LET p     == IndexOf(<<":", "/", "/">>, s)
        proto == IF p = 0 THEN <<>> ELSE SubSeq(s, 1, p - 1)
        rest  == IF p = 0 THEN s ELSE SubSeq(s, p + 3, Len(s))
        sl    == IndexOf(<<"/">>, rest)
        host  == IF sl = 0 THEN rest ELSE SubSeq(rest, 1, sl - 1)
        dot   == LastIndexOf(".", host)
        tld   == SubSeq(host, dot + 1, Len(host))
    IN  /\ s # <<>>
        /\ " " \notin Range(s)
        /\ p # 0 => proto \in {<<"h", "t", "t", "p">>, <<"h", "t", "t", "p", "s">>, <<"f", "t", "p">>}
        /\ dot > 1
        /\ Len(tld) >= 2
        /\ \A i \in DOMAIN tld : tld[i] \in AlphaChars
        /\ \A i \in DOMAIN host : host[i] \in AlphaChars \cup DigitChars \cup {".", "-"}
        /\ \A i \in 1..(Len(host) - 1) : ~(host[i] = "." /\ host[i + 1] = ".")

\* new RegExp(p, 'i') throws a SyntaxError on an unbalanced group (the patterns
\* of the model hold literal characters, '.', and at most a lone parenthesis)
RECURSIVE Count(_, _)
Count(c, s) == IF s = <<>> THEN 0 ELSE (IF Head(s) = c THEN 1 ELSE 0) + Count(c, Tail(s))

RegExpValid(p) == Count("(", p) = 0 /\ Count(")", p) = 0

\* new RegExp(p, 'i').test(s) for patterns of literal characters and '.'
RegExpTest(p, s) ==
    \E i \in 1..(Len(s) - Len(p) + 1) :
        \A j \in DOMAIN p : p[j] = "." \/ Lower(p[j]) = Lower(s[i + j - 1])


-----------------------------------------------------------------------------
(* express-validator chains.  A chain yields at most one error per field    *)
(* instance; validationResult(req).array() lists them in chain order.       *)

Err(ok, field) == IF ok THEN <<>> ELSE <<field>>

HasIn(o, k, l) == Has(o, k) /\ Has(o[k], l)

TypeEntryField(i) == CASE i = 1 -> "type[0]" [] i = 2 -> "type[1]" [] OTHER -> "type[2]"

\* body('type.*').trim().isLength({ min: 1, max: 20 }): one instance per array entry
RECURSIVE TypeEntryErrors(_, _)
TypeEntryErrors(t, i) ==
    IF i > Len(t) THEN <<>>
    ELSE Err(isLength(trim(t[i]), 1, TypeEntryMax), TypeEntryField(i)) \o TypeEntryErrors(t, i + 1)

\* a required string field: toString(undefined) is ''
RequiredName(b, l) == HasIn(b, "name", l) /\ isLength(trim(b.name[l]), 1, NameMax)
\* .optional(): the chain is skipped when the value is undefined
OptionalName(b, l, min) == HasIn(b, "name", l) => isLength(trim(b.name[l]), min, NameMax)
RequiredStat(b, s) == HasIn(b, "base", s) /\ isIntJ(b.base[s], StatMin, StatMax)
OptionalStat(b, s) == HasIn(b, "base", s) => isIntJ(b.base[s], StatMin, StatMax)
isArray(b, min, max) == Len(b.type) >= min /\ Len(b.type) <= max

ParamIdChain(id) == Err(isInt(id, 1, -1), "id")

ListChain(q) ==
       Err(Has(q, "page") => isInt(q.page, 1, -1), "page")
    \o Err(Has(q, "limit") => isInt(q.limit, 1, LimitMax), "limit")

SearchChain(name) == Err(isLength(trim(name), 1, NameMax), "name")

CreateChain(b) ==
       Err(Has(b, "id") /\ isIntJ(b.id, 1, -1), "id")
    \o Err(RequiredName(b, "english"), "name.english")
    \o Err(OptionalName(b, "french", 0), "name.french")
    \o Err(OptionalName(b, "japanese", 0), "name.japanese")
    \o Err(OptionalName(b, "chinese", 0), "name.chinese")
    \o Err(Has(b, "type") /\ isArray(b, 1, TypeMax), "type")
    \o (IF Has(b, "type") THEN TypeEntryErrors(b.type, 1) ELSE <<>>)
    \o Err(RequiredStat(b, "HP"), "base.HP")
    \o Err(RequiredStat(b, "Attack"), "base.Attack")
    \o Err(RequiredStat(b, "Defense"), "base.Defense")
    \o Err(RequiredStat(b, "SpecialAttack"), "base.SpecialAttack")
    \o Err(RequiredStat(b, "SpecialDefense"), "base.SpecialDefense")
    \o Err(RequiredStat(b, "Speed"), "base.Speed")
    \o Err(Has(b, "image") /\ isURL(b.image), "image")

UpdateChain(id, b) ==
       ParamIdChain(id)
    \o Err(OptionalName(b, "english", 1), "name.english")
    \o Err(OptionalName(b, "french", 0), "name.french")
    \o Err(OptionalName(b, "japanese", 0), "name.japanese")
    \o Err(OptionalName(b, "chinese", 0), "name.chinese")
    \o Err(Has(b, "type") => isArray(b, 1, TypeMax), "type")
    \o (IF Has(b, "type") THEN TypeEntryErrors(b.type, 1) ELSE <<>>)
    \o Err(OptionalStat(b, "HP"), "base.HP")
    \o Err(OptionalStat(b, "Attack"), "base.Attack")
    \o Err(OptionalStat(b, "Defense"), "base.Defense")
    \o Err(OptionalStat(b, "SpecialAttack"), "base.SpecialAttack")
    \o Err(OptionalStat(b, "SpecialDefense"), "base.SpecialDefense")
    \o Err(OptionalStat(b, "Speed"), "base.Speed")
    \o Err(Has(b, "image") => isLength(trim(b.image), 1, -1), "image")

\* The sanitizers of the chains write the trimmed value back into the request.
TrimAll(o) == [k \in DOMAIN o |-> trim(o[k])]

\* Mutant: the chains validate the trimmed value and leave the request as it came.
CreateSanitize_none(b) == b

CreateSanitize(b) ==
    [k \in DOMAIN b |-> CASE k = "name" -> TrimAll(b.name)
                          [] k = "type" -> TrimAll(b.type)
                          [] OTHER -> b[k]]

UpdateSanitize(b) ==
    [k \in DOMAIN b |-> CASE k = "name" -> TrimAll(b.name)
                          [] k = "type" -> TrimAll(b.type)
                          [] k = "image" -> trim(b.image)
                          [] OTHER -> b[k]]

\* Mutant: answers with the first error only.
handleValidation_first(errs) ==
    [halt |-> errs # <<>>, status |-> 400,
     out |-> [error |-> "Validation failed", details |-> SubSeq(errs, 1, 1)]]

\* handleValidation: 400 with errors.array() when there is any error, else next()
handleValidation(errs) ==
    [halt |-> errs # <<>>, status |-> 400,
     out |-> [error |-> "Validation failed", details |-> errs]]


-----------------------------------------------------------------------------
(* The pokemon collection.  The schema (schema/pokemon.js) is not among the *)
(* sources at hand; by the data model of the specification it declares id  *)
(* as a unique Number, the base stats as Numbers and the four name strings.*)

FindIndex(store, n) ==
    LET at == {i \in DOMAIN store : store[i].id = n}
    IN  IF at = {} THEN 0 ELSE CHOOSE i \in at : \A j \in at : i <= j

CastBase(b) == [s \in DOMAIN b |-> CastNumber(b[s])]

CastPath(k, v) == CASE k = "id" -> CastNumber(v)
                    [] k = "base" -> CastBase(v)
                    [] OTHER -> v

\* The document a save() inserts for new pokemon({...}), with its store-assigned _id
CastDoc(p, oid) == [k \in DOMAIN p \cup {"oid"} |-> IF k = "oid" THEN oid ELSE CastPath(k, p[k])]

\* The unique index on id
UniqueIndexOk(store, doc) == FindIndex(store, doc.id) = 0

RemoveAt(store, i) == SubSeq(store, 1, i - 1) \o SubSeq(store, i + 1, Len(store))

Reply(store, status, out, calls) == [db |-> store, status |-> status, out |-> out, calls |-> calls]

NotFound == [error |-> "Pokemon not found"]

-----------------------------------------------------------------------------
(* Resource handlers: the store after the handler, and its response.        *)

\* GET /pokemons/:id
GetHandler(store, id) ==
    LET i == FindIndex(store, ToNumber(id))
    IN  IF i # 0 THEN Reply(store, 200, store[i], 1) ELSE Reply(store, 404, NotFound, 1)

\* !id || !name || !type || !base || !image
Falsy(b, k) == \/ ~Has(b, k)
               \/ k = "image" /\ b.image = <<>>
               \/ k = "id" /\ b.id = Num(0)
               \/ k = "id" /\ b.id = Str(<<>>)

NewPokemon(b) ==
    [id |-> b.id, name |-> b.name, type |-> b.type, base |-> b.base, image |-> b.image]

\* POST /pokemons
CreateHandler(store, oid, b) ==
    IF \E k \in {"id", "name", "type", "base", "image"} : Falsy(b, k)
    THEN Reply(store, 400, [error |-> "Missing required fields"], 0)
    ELSE LET doc == CastDoc(NewPokemon(b), oid)
         IN  IF UniqueIndexOk(store, doc)
             THEN Reply(Append(store, doc), 201, doc, 1)
             ELSE Reply(store, 500, [error |-> "E11000 duplicate key"], 1)

\* Mutant: the update also takes the id of the body.
UpdateSet_withId(b) ==
    [k \in {f \in {"id", "name", "type", "base", "image"} : ~Falsy(b, f)} |-> b[k]]

\* { ...(name && { name }), ...(type && { type }), ...(base && { base }), ...(image && { image }) }
UpdateSet(b) ==
    [k \in {f \in {"name", "type", "base", "image"} : ~Falsy(b, f)} |-> b[k]]

\* Mutant: a name of the update is merged into the stored name, key by key.
ApplyUpdate_merge(d, set) ==
    [k \in DOMAIN d |->
        IF ~Has(set, k) THEN d[k]
        ELSE IF k = "name"
             THEN [l \in DOMAIN d.name \cup DOMAIN set.name |->
                      IF Has(set.name, l) THEN set.name[l] ELSE d.name[l]]
             ELSE CastPath(k, set[k])]

\* $set of the given top-level paths: each replaces the stored value as a whole
ApplyUpdate(d, set) ==
    [k \in DOMAIN d |-> IF Has(set, k) THEN CastPath(k, set[k]) ELSE d[k]]

\* PUT /pokemons/:id
UpdateHandler(store, id, b) ==
    LET i == FindIndex(store, ToNumber(id))
    IN  IF i = 0 THEN Reply(store, 404, NotFound, 1)
        ELSE LET doc == ApplyUpdate(store[i], UpdateSet(b))
             IN  Reply([store EXCEPT ![i] = doc], 200, doc, 1)

\* Mutant: the document is found and returned, and stays in the collection.
findOneAndDelete_keep(store, i) == store

findOneAndDelete(store, i) == RemoveAt(store, i)

\* DELETE /pokemons/:id
DeleteHandler(store, id) ==
    LET i == FindIndex(store, ToNumber(id))
    IN  IF i = 0 THEN Reply(store, 404, NotFound, 1)
        ELSE Reply(findOneAndDelete(store, i), 200,
                   [message |-> "Pokemon deleted successfully", pokemon |-> store[i]], 1)


Min(a, b) == IF a <= b THEN a ELSE b

\* Math.ceil(a / b) for a >= 0, b > 0
Ceil(a, b) == (a + b - 1) \div b

\* Mutant: the page itself is taken as the number of pages to skip.
ListSkip_page(page, limit) == page * limit

\* const skip = (page - 1) * limit
ListSkip(page, limit) == (page - 1) * limit

\* pokemon.find({}).skip(skip).limit(limit)
FindPage(store, skip, limit) == SubSeq(store, skip + 1, Min(skip + limit, Len(store)))

\* GET /pokemons up to its first store call
ListQuery(store, q) ==
    LET page  == parseIntOr(q, "page", DefaultPage)
        limit == parseIntOr(q, "limit", DefaultLimit)
    IN  [query |-> q, page |-> page, limit |-> limit,
         data |-> FindPage(store, ListSkip(page, limit), limit), seen |-> store]

\* GET /pokemons from countDocuments({}) on
ListAnswer(store, f) ==
    LET total == Len(store)
    IN  Reply(store, 200,
              [data |-> f.data,
               pagination |-> [currentPage |-> f.page,
                               totalPages |-> Ceil(total, f.limit),
                               totalPokemons |-> total,
                               pokemonsPerPage |-> f.limit]], 2)

SearchLangs == {"english", "french", "japanese"}

\* GET /pokemons/search/:name
SearchHandler(store, name) ==
    IF ~RegExpValid(name)
    THEN Reply(store, 500, [error |-> "Invalid regular expression"], 0)
    ELSE LET at == {i \in DOMAIN store :
                      \E l \in SearchLangs :
                          Has(store[i].name, l) /\ RegExpTest(name, store[i].name[l])}
         IN  IF at = {} THEN Reply(store, 404, NotFound, 1)
             ELSE Reply(store, 200, store[CHOOSE i \in at : \A j \in at : i <= j], 1)

-----------------------------------------------------------------------------
(* The middleware chain in front of the routes: express.static under       *)
(* /assets, then cors, then the limiter.                                   *)

\* express.static answers a GET under /assets whose file exists, and calls next() otherwise
StaticServes(rq) == rq.path = "asset" /\ rq.file

\* the origin callback of cors: an error for an origin that is neither absent,
\* nor a localhost one, nor listed in CORS_ORIGINS
CorsAllows(rq) == ~rq.origin.present \/ rq.origin.localhost \/ rq.origin.listed

\* express-rate-limit: the hit is counted, and answered 429 once the count exceeds max
LimiterRejects(count) == count > RateMax

\* The outcome of one request through the chain, and the limiter's count after it
Chain(rq, count) ==
    IF StaticServes(rq) THEN [status |-> 200, count |-> count, by |-> "static"]
    ELSE IF ~CorsAllows(rq) THEN [status |-> 500, count |-> count, by |-> "cors"]
    ELSE IF LimiterRejects(count + 1) THEN [status |-> 429, count |-> count + 1, by |-> "limiter"]
    ELSE [status |-> IF rq.path = "asset" THEN 404 ELSE 200, count |-> count + 1, by |-> "route"]


-----------------------------------------------------------------------------
(* Requests.  Every action is one request from its validation chain to its *)
(* response; List is two steps, one per store call it awaits.              *)

Answer(route, req, r, wasGone) ==
    [route |-> route, req |-> req, status |-> r.status, out |-> r.out,
     calls |-> r.calls, wasGone |-> wasGone]

Rejected(store, errs) == Reply(store, 400, handleValidation(errs).out, 0)

\* GET /pokemons/:id from its chain to its response
GetRoute(store, id) ==
    LET errs == ParamIdChain(id)
    IN  IF handleValidation(errs).halt THEN Rejected(store, errs) ELSE GetHandler(store, id)

\* the numeric id of a path parameter that passes its chain, 0 otherwise
ParamId(id) == IF ParamIdChain(id) = <<>> THEN ToNumber(id) ELSE 0

Quiet == UNCHANGED <<inflight, hits, served, asked>>

Get(id) ==
    LET r == GetRoute(db, id)
    IN  /\ res' = Answer("GET", [id |-> id], r, ParamId(id) \in gone)
        /\ UNCHANGED <<db, nextOid, born, gone>>
        /\ Quiet

Create(b) ==
    LET errs == CreateChain(b)
        r    == IF handleValidation(errs).halt THEN Rejected(db, errs)
                ELSE CreateHandler(db, nextOid, CreateSanitize(b))
    IN  /\ r.status = 201 => Len(db) < MaxDocs /\ nextOid <= MaxCreates
        /\ res' = Answer("POST", [body |-> b], r, FALSE)
        /\ db' = r.db
        /\ IF r.status = 201
           THEN /\ nextOid' = nextOid + 1
                /\ born' = Append(born, r.out.id)
                /\ gone' = gone \ {r.out.id}
           ELSE UNCHANGED <<nextOid, born, gone>>
        /\ Quiet

Update(id, b) ==
    LET errs == UpdateChain(id, b)
        r    == IF handleValidation(errs).halt THEN Rejected(db, errs)
                ELSE UpdateHandler(db, id, UpdateSanitize(b))
    IN  /\ res' = Answer("PUT", [id |-> id, body |-> b], r, FALSE)
        /\ db' = r.db
        /\ UNCHANGED <<nextOid, born, gone>>
        /\ Quiet

Delete(id) ==
    LET errs == ParamIdChain(id)
        r    == IF handleValidation(errs).halt THEN Rejected(db, errs) ELSE DeleteHandler(db, id)
    IN  /\ res' = Answer("DELETE", [id |-> id], r, ParamId(id) \in gone)
        /\ db' = r.db
        /\ gone' = IF r.status = 200 THEN gone \cup {ParamId(id)} ELSE gone
        /\ UNCHANGED <<nextOid, born>>
        /\ Quiet

Search(name) ==
    LET errs == SearchChain(name)
        r    == IF handleValidation(errs).halt THEN Rejected(db, errs)
                ELSE SearchHandler(db, trim(name))
    IN  /\ res' = Answer("SEARCH", [name |-> name], r, FALSE)
        /\ UNCHANGED <<db, nextOid, born, gone>>
        /\ Quiet

\* GET /pokemons: validation, then find().skip().limit(), where the handler awaits
ListFind(q) ==
    LET errs == ListChain(q)
    IN  /\ inflight = <<>>
        /\ IF handleValidation(errs).halt
           THEN /\ res' = Answer("LIST", [query |-> q], Rejected(db, errs), FALSE)
                /\ UNCHANGED inflight
           ELSE /\ inflight' = <<ListQuery(db, q)>>
                /\ res' = Answer("LIST", [query |-> q],
                                 [status |-> 0, out |-> "pending", calls |-> 1], FALSE)
        /\ UNCHANGED <<db, nextOid, born, gone, hits, served, asked>>

\* GET /pokemons: countDocuments() and the response
ListCount ==
    /\ inflight # <<>>
    /\ res' = Answer("LIST", [query |-> inflight[1].query, seen |-> inflight[1].seen],
                     ListAnswer(db, inflight[1]), FALSE)
    /\ inflight' = <<>>
    /\ UNCHANGED <<db, nextOid, born, gone, hits, served, asked>>

\* One request of the caller through the middleware chain
Http(rq) ==
    LET c == Chain(rq, hits)
    IN  /\ asked < RateMax + MaxOver
        /\ asked' = asked + 1
        /\ hits' = c.count
        /\ served' = IF c.by = "limiter" THEN served ELSE served + 1
        /\ res' = Answer("HTTP", rq, [status |-> c.status, out |-> c.by, calls |-> 0], FALSE)
        /\ UNCHANGED <<db, nextOid, born, gone, inflight>>

\* The limiter's window of windowMs ends
WindowEnds ==
    /\ asked > 0
    /\ hits' = 0 /\ served' = 0 /\ asked' = 0
    /\ res' = Answer("HTTP", [path |-> "none"], [status |-> 0, out |-> "reset", calls |-> 0], FALSE)
    /\ UNCHANGED <<db, nextOid, born, gone, inflight>>

-----------------------------------------------------------------------------
(* Request inputs *)

sA    == <<"a">>
sB    == <<"b">>
sAb   == <<"A", "b">>
sPadA == <<" ", "a", " ">>
sPadB == <<"b", " ">>
sBlank == <<" ">>
sC    == <<"c">>
Repeat(c, n) == [i \in 1..n |-> c]

Url1   == <<"h", "t", "t", "p", ":", "/", "/", "a", ".", "c", "o", "/", "b">>
Url2   == <<"b", ".", "c", "o">>
NoTld  == <<"h", "t", "t", "p", ":", "/", "/", "x", "/", "b">>
NotUrl == <<"x">>

FullBase(v) == [s \in Range(Stats) |-> v]

Bulb == [id |-> Num(1), name |-> [english |-> sAb], type |-> <<sA, sB>>,
         base |-> FullBase(Num(45)), image |-> Url1]
Padded == [id |-> Num(2), name |-> [english |-> sPadA, french |-> sPadB, chinese |-> sC],
           type |-> <<sPadB>>, base |-> FullBase(Num(255)), image |-> Url2]
Texty == [id |-> Str(<<"0", "2">>), name |-> [english |-> sB, japanese |-> <<>>],
          type |-> <<sA>>, base |-> [FullBase(Num(1)) EXCEPT !["HP"] = Str(<<"7">>)],
          image |-> Url1]
BadAll == [id |-> Num(0), name |-> [english |-> sBlank, french |-> Repeat("a", NameMax + 1)],
           type |-> <<sA, Repeat("a", TypeEntryMax + 1), sA>>,
           base |-> [HP |-> Num(StatMax + 1), Attack |-> Str(sA)], image |-> NoTld]
BadImage == [Bulb EXCEPT !.image = NotUrl]
NoBody == [image |-> Url1]

Third == [Bulb EXCEPT !.id = Num(3), !.name = [english |-> Repeat("b", NameMax)]]

UpImage   == [image |-> Url2]
UpNotUrl  == [image |-> NotUrl]
UpFrench  == [name |-> [french |-> sPadB]]
UpNameId  == [name |-> [english |-> sA, chinese |-> sA], id |-> Num(2)]
UpHpOnly  == [base |-> [HP |-> Num(10)]]
UpTypeBase == [type |-> <<sPadA>>, base |-> FullBase(Str(<<"9">>))]
UpBad     == [name |-> [english |-> sBlank], type |-> <<>>, base |-> [Speed |-> Num(0)],
              image |-> sBlank]

Init ==
    /\ db = <<>>
    /\ nextOid = 1
    /\ res = Answer("START", [path |-> "none"], [status |-> 0, out |-> "none", calls |-> 0], FALSE)
    /\ born = <<>>
    /\ gone = {}
    /\ inflight = <<>>
    /\ hits = 0
    /\ served = 0
    /\ asked = 0

(* Spec: the identity of records under Create, Update, Delete and Get-by-id *)
Next ==
    \/ \E b \in {Bulb, Padded, Texty, Third, BadImage} : Create(b)
    \/ \E id \in {<<"1">>, <<"2">>, <<"a">>}, b \in {UpImage, UpNameId} : Update(id, b)
    \/ \E id \in {<<"1">>, <<"2">>, <<"+", "1">>, <<"0">>} : Delete(id)
    \/ \E id \in {<<"1">>, <<"2">>, <<"+", "1">>, <<"a">>} : Get(id)

Spec == Init /\ [][Next]_vars

(* SpecFields: the fields of a record under Create and Update *)
NextFields ==
    \/ \E b \in {Bulb, Padded, Texty, BadAll} : Create(b)
    \/ \E id \in {<<"1">>},
          b \in {UpImage, UpNotUrl, UpFrench, UpNameId, UpHpOnly, UpTypeBase, UpBad} : Update(id, b)
    \/ \E id \in {<<"1">>} : Delete(id)
    \/ \E id \in {<<"1">>} : Get(id)

SpecFields == Init /\ [][NextFields]_vars

(* SpecValidation: every route, with requests that break its rules *)
NextValidation ==
    \/ \E b \in {Bulb, BadAll, BadImage, NoBody} : Create(b)
    \/ \E id \in {<<"1">>, <<"0">>}, b \in {UpImage, UpBad} : Update(id, b)
    \/ \E id \in {<<"1">>, <<"-", "1">>, <<>>} : Delete(id)
    \/ \E id \in {<<"1">>, <<"1", "a">>, <<" ", "1">>} : Get(id)
    \/ \E name \in {sPadA, sBlank, <<>>, Repeat("a", NameMax + 1)} : Search(name)
    \/ \E q \in {[page |-> <<"1">>], [page |-> <<"0">>, limit |-> <<"1", "0", "1">>],
                 [limit |-> <<"2", "x">>], [page |-> <<>>, limit |-> <<"0">>]} : ListFind(q)
    \/ ListCount

SpecValidation == Init /\ [][NextValidation]_vars

(* SpecList: List between Creates and Deletes *)
NextList ==
    \/ \E b \in {Bulb, Padded, Third} : Create(b)
    \/ \E id \in {<<"1">>, <<"2">>} : Delete(id)
    \/ \E q \in {[limit |-> <<"1">>], [page |-> <<"2">>, limit |-> <<"1">>],
                 [page |-> <<"+", "3">>, limit |-> <<"0", "1">>], [page |-> <<"2">>],
                 [page |-> <<"1">>, limit |-> <<"2">>], [page |-> <<"2">>, limit |-> <<"2">>],
                 [limit |-> <<"1", "0", "0">>], [page |-> <<"0">>, limit |-> <<"1", "0", "1">>]} :
          ListFind(q)
    \/ ListCount

SpecList == Init /\ [][NextList]_vars

(* SpecSearch: Search-by-name over records of several names *)
NextSearch ==
    \/ \E b \in {Bulb, Padded, Texty, Third} : Create(b)
    \/ \E id \in {<<"1">>, <<"2">>} : Delete(id)
    \/ \E name \in {sA, <<"B">>, sC, <<"a", "B">>, sPadA, <<".">>, <<"b", ".">>, <<"(">>, sBlank} :
          Search(name)

SpecSearch == Init /\ [][NextSearch]_vars

(* SpecHttp: the requests of one caller through the middleware chain *)
NoOrigin      == [present |-> FALSE, localhost |-> FALSE, listed |-> FALSE]
LocalOrigin   == [present |-> TRUE, localhost |-> TRUE, listed |-> FALSE]
ListedOrigin  == [present |-> TRUE, localhost |-> FALSE, listed |-> TRUE]
ForeignOrigin == [present |-> TRUE, localhost |-> FALSE, listed |-> FALSE]

HttpRequests == {[path |-> "asset", file |-> TRUE, origin |-> LocalOrigin],
                 [path |-> "asset", file |-> FALSE, origin |-> NoOrigin],
                 [path |-> "api", file |-> FALSE, origin |-> ListedOrigin],
                 [path |-> "api", file |-> FALSE, origin |-> ForeignOrigin]}

NextHttp ==
    \/ \E rq \in HttpRequests : Http(rq)
    \/ WindowEnds

SpecHttp == Init /\ [][NextHttp]_vars


-----------------------------------------------------------------------------
(* Properties *)

DigitChar(d) == CASE d = 0 -> "0" [] d = 1 -> "1" [] d = 2 -> "2" [] d = 3 -> "3"
                  [] d = 4 -> "4" [] d = 5 -> "5" [] d = 6 -> "6" [] d = 7 -> "7"
                  [] d = 8 -> "8" [] d = 9 -> "9"

RECURSIVE DecimalOf(_)
DecimalOf(n) == IF n < 10 THEN <<DigitChar(n)>>
                ELSE DecimalOf(n \div 10) \o <<DigitChar(n % 10)>>

\* the path parameter that names the id of a Create body
IdParamOf(v) == IF v.t = "number" THEN DecimalOf(v.v) ELSE v.v

\* the number a submitted JSON number or numeric string stands for
NumericValue(v) == IF v.t = "number" THEN v.v ELSE ToNumber(v.v)

C2_ExactEcho ==
    (res.route = "POST" /\ res.status = 201) =>
        LET b == res.req.body
            g == GetRoute(db, IdParamOf(b.id))
        IN  /\ g.status = 200
            /\ g.out.id = NumericValue(b.id)
            /\ g.out.name = b.name
            /\ g.out.type = b.type
            /\ DOMAIN g.out.base = DOMAIN b.base
            /\ \A s \in DOMAIN b.base : g.out.base[s] = NumericValue(b.base[s])
            /\ g.out.image = b.image

\* C2 amended: after a Create answered 201, Get-by-id of the same id answers 200
\* with the submitted image, the numeric values of the submitted id and base stats,
\* and the submitted name strings and type entries without their surrounding blanks.
C2_TrimmedEcho ==
    (res.route = "POST" /\ res.status = 201) =>
        LET b == res.req.body
            g == GetRoute(db, IdParamOf(b.id))
        IN  /\ g.status = 200
            /\ g.out.id = NumericValue(b.id)
            /\ DOMAIN g.out.name = DOMAIN b.name
            /\ \A l \in DOMAIN b.name :
                  /\ Len(g.out.name[l]) <= Len(b.name[l])
                  /\ \E k \in 0..Len(b.name[l]) :
                        /\ SubSeq(b.name[l], k + 1, k + Len(g.out.name[l])) = g.out.name[l]
                        /\ \A m \in (1..k) \cup ((k + Len(g.out.name[l]) + 1)..Len(b.name[l])) :
                              b.name[l][m] = " "
                  /\ g.out.name[l] # <<>> =>
                        Head(g.out.name[l]) # " " /\ g.out.name[l][Len(g.out.name[l])] # " "
            /\ Len(g.out.type) = Len(b.type)
            /\ \A i \in DOMAIN b.type : g.out.type[i] = trim(b.type[i])
            /\ DOMAIN g.out.base = DOMAIN b.base
            /\ \A s \in DOMAIN b.base :
                  g.out.base[s] = NumericValue(b.base[s])
            /\ g.out.image = b.image

\* C2 witness: a Create whose name and type carry surrounding blanks was answered 201.
C2_Witness ==
    /\ res.route = "POST" /\ res.status = 201
    /\ res.req.body = Padded

\* C3: once a Delete of an id was answered 200 and no Create of it was answered 201
\* since, the id is not stored and Get-by-id and Delete of it answer 404.
C3_GoneAnswers404 ==
    /\ \A i \in DOMAIN db : db[i].id \notin gone
    /\ (res.route \in {"GET", "DELETE"} /\ res.wasGone) => res.status = 404

\* C3 witness: a second Delete of a deleted id was answered 404.
C3_Witness ==
    /\ res.route = "DELETE" /\ res.wasGone /\ res.status = 404

\* C4: an Update answered 200 leaves every other record and every top-level field
\* absent from its body unchanged, and a name in the body replaces the stored name
\* as a whole, so that only the language keys of the body remain.
C4_Step ==
    (res'.route = "PUT" /\ res'.status = 200) =>
        LET b == res'.req.body
            i == FindIndex(db, ToNumber(res'.req.id))
        IN  /\ i # 0
            /\ Len(db') = Len(db)
            /\ \A j \in DOMAIN db : j # i => db'[j] = db[j]
            /\ DOMAIN db'[i] = DOMAIN db[i]
            /\ \A k \in DOMAIN db[i] : ~Has(b, k) => db'[i][k] = db[i][k]
            /\ Has(b, "name") =>
                  /\ DOMAIN db'[i].name = DOMAIN b.name
                  /\ \A l \in DOMAIN b.name : db'[i].name[l] = trim(b.name[l])

C4_PartialUpdate == [][C4_Step]_vars

\* C4 witness: an Update with a name of one language was applied to a record whose
\* name had another language, while a second record is stored.
C4_Witness ==
    /\ res.route = "PUT" /\ res.status = 200
    /\ res.req.body = UpFrench
    /\ Len(db) = 2
    /\ \E i \in DOMAIN db : db[i].id = 1 /\ DOMAIN db[i].name = {"french"}

\* C5: a List of page p >= 1 and limit l in [1,100] (1 and 20 when absent) returns
\* the records after the first (p-1)*l ones, at most l of them, and reports
\* currentPage p, pokemonsPerPage l, the counted total and ceil(total/l) pages.
C5_Pagination ==
    (res.route = "LIST" /\ res.status = 200) =>
        LET q     == res.req.query
            p     == IF Has(q, "page") THEN ToNumber(q.page) ELSE 1
            l     == IF Has(q, "limit") THEN ToNumber(q.limit) ELSE 20
            seen  == res.req.seen
            data  == res.out.data
            pg    == res.out.pagination
            after == Len(seen) - (p - 1) * l
        IN  /\ p >= 1 /\ l >= 1 /\ l <= 100
            /\ Len(data) <= l
            /\ Len(data) = (IF after <= 0 THEN 0 ELSE IF after <= l THEN after ELSE l)
            /\ \A k \in DOMAIN data : data[k] = seen[(p - 1) * l + k]
            /\ pg.currentPage = p
            /\ pg.pokemonsPerPage = l
            /\ pg.totalPokemons = Len(db)
            /\ pg.totalPages * l >= Len(db)
            /\ (pg.totalPages - 1) * l < Len(db)
            /\ pg.totalPages >= 0

\* C5 witness: a List of page 2 with limit 1 returned the second record, and the
\* collection changed between its find and its count.
C5_Witness ==
    /\ res.route = "LIST" /\ res.status = 200
    /\ res.req.query = [page |-> <<"2">>, limit |-> <<"1">>]
    /\ Len(res.out.data) = 1
    /\ Len(res.req.seen) # Len(db)

\* the chain of the route of a request
ChainOf(r) ==
    CASE r.route = "GET" -> ParamIdChain(r.req.id)
      [] r.route = "DELETE" -> ParamIdChain(r.req.id)
      [] r.route = "SEARCH" -> SearchChain(r.req.name)
      [] r.route = "LIST" -> ListChain(r.req.query)
      [] r.route = "POST" -> CreateChain(r.req.body)
      [] r.route = "PUT" -> UpdateChain(r.req.id, r.req.body)
      [] OTHER -> <<>>

\* C6: a request that breaks a rule of its route is answered 400 with every field
\* in violation listed, without a store call and with the store as it was.
C6_Step ==
    LET errs == ChainOf(res')
    IN  errs # <<>> =>
            /\ res'.status = 400
            /\ Range(res'.out.details) = Range(errs)
            /\ res'.calls = 0
            /\ db' = db
            /\ inflight' = inflight

C6_RejectsAllViolations == [][C6_Step]_vars

\* C6 witness: a Create that breaks the rules of more than five fields was
\* answered 400 while a record is stored.
C6_Witness ==
    /\ res.route = "POST" /\ res.status = 400
    /\ Len(res.out.details) > 5
    /\ Len(db) = 1

\* a field of the Create chain is given in an Update body
Supplied(b, f) ==
    CASE f = "id" -> FALSE
      [] f = "name.english" -> HasIn(b, "name", "english")
      [] f = "name.french" -> HasIn(b, "name", "french")
      [] f = "name.japanese" -> HasIn(b, "name", "japanese")
      [] f = "name.chinese" -> HasIn(b, "name", "chinese")
      [] f = "type" -> Has(b, "type")
      [] f = "base.HP" -> HasIn(b, "base", "HP")
      [] f = "base.Attack" -> HasIn(b, "base", "Attack")
      [] f = "base.Defense" -> HasIn(b, "base", "Defense")
      [] f = "base.SpecialAttack" -> HasIn(b, "base", "SpecialAttack")
      [] f = "base.SpecialDefense" -> HasIn(b, "base", "SpecialDefense")
      [] f = "base.Speed" -> HasIn(b, "base", "Speed")
      [] f = "image" -> Has(b, "image")
      [] OTHER -> TRUE

\* C7: an Update that its validation lets through gives no field a value that the
\* validation of Create rejects.
C7_SameConstraints ==
    (res.route = "PUT" /\ res.status # 400) =>
        \A f \in Range(CreateChain(res.req.body)) : ~Supplied(res.req.body, f)

\* C8: every stored record has all six base stats, each in [1,255].
C8_AllStatsInRange ==
    \A i \in DOMAIN db :
        /\ DOMAIN db[i].base = Range(Stats)
        /\ \A s \in DOMAIN db[i].base : db[i].base[s] >= 1 /\ db[i].base[s] <= 255

\* q occurs in s, letter case aside
ContainsIgnoringCase(q, s) ==
    \E i \in 1..(Len(s) - Len(q) + 1) :
        \A j \in DOMAIN q : Lower(q[j]) = Lower(s[i + j - 1])

\* C9: a Search whose trimmed name has 1 to 50 characters answers 200 with the
\* first record that has the name as a case-insensitive substring of its english,
\* french or japanese name, and 404 when there is none.
C9_SubstringSearch ==
    (res.route = "SEARCH" /\ res.status # 400) =>
        LET q  == trim(res.req.name)
            at == {i \in DOMAIN db :
                     \E l \in {"english", "french", "japanese"} :
                         Has(db[i].name, l) /\ ContainsIgnoringCase(q, db[i].name[l])}
        IN  IF at = {} THEN res.status = 404
            ELSE /\ res.status = 200
                 /\ res.out = db[CHOOSE i \in at : \A j \in at : i <= j]

\* C10: every request of the caller is counted by the limiter, and no more than
\* max requests of a window are served.
C10_EveryRequestLimited ==
    /\ hits = asked
    /\ served <= RateMax

=============================================================================
